---- MODULE Spec2Model ----
(***************************************************************************)
(* Token-budgeted conversation history of                                  *)
(*   src/phase2/codex_cli_optimization_v1.rs (OptimizedConversationHistory)*)
(*   src/phase2/integration_patch.rs         (ConversationHistory wrapper) *)
(*                                                                         *)
(* Text.  A String is modelled as a sequence of chunks.  A chunk is a      *)
(* literal piece of text with its byte length; the chunk "x" stands for a  *)
(* run of len filler bytes.  No literal ends in "." or begins or ends with *)
(* a letter of a searched term that a neighbour could complete, so a       *)
(* searched term occurs in a text iff it occurs inside one of its chunks.  *)
(*                                                                         *)
(* Scores.  importance_score is an f64 built from the constants 0.5, 0.4,  *)
(* 0.3, 0.2, 0.15, 0.1; it is kept here in hundredths.  For all 384        *)
(* combinations of the summands the f64 sum is within 2 ulp of the decimal *)
(* value, and the comparisons `< 0.3` and `< 0.7` of the code are decided  *)
(* the same way on the hundredths.                                         *)
(***************************************************************************)
EXTENDS Integers, Sequences, FiniteSets, TLC

VARIABLES items, max_tokens, current_tokens, min_messages,
          full_retention_count, fault,
          now, pending, batch_now, nextArrival, ingested, stepsLeft, last

vars == <<items, max_tokens, current_tokens, min_messages,
          full_retention_count, fault,
          now, pending, batch_now, nextArrival, ingested, stepsLeft, last>>

----------------------------------------------------------------------------
(* Bounds of the model *)

MaxSteps == 3

MaxStoreSteps == 1

MaxStoreLen == 3

MaxClock == 1

----------------------------------------------------------------------------
(* Text *)

Min(a, b) == IF a <= b THEN a ELSE b

Max(a, b) == IF a >= b THEN a ELSE b

X(n) == [txt |-> "x", len |-> n]

LitLen(s) ==
  CASE s = "SYSTEM:" -> 7
    [] s = "Critical" -> 8
    [] s = "error" -> 5
    [] s = "error:" -> 6
    [] s = "config" -> 6
    [] s = "result" -> 6
    [] s = ". " -> 2
    [] s = " [Contains: error]" -> 18
    [] s = " [Contains: function]" -> 21
    [] s = " [Contains: variable]" -> 21
    [] s = " [Contains: config]" -> 19
    [] s = " [Contains: solution]" -> 21
    [] s = " [Contains: result]" -> 19
    [] s = " [Compressed]" -> 13

Lit(s) == [txt |-> s, len |-> LitLen(s)]

\* str::len: the byte length of a text
RECURSIVE StrLen(_)
StrLen(text) ==
  IF text = <<>> THEN 0 ELSE Head(text).len + StrLen(Tail(text))

\* the searched terms that occur in a chunk as written (case-sensitive)
OccursIn(s) ==
  CASE s = "error" -> {"error"}
    [] s = "error:" -> {"error", "error:"}
    [] s = "config" -> {"config"}
    [] s = "result" -> {"result"}
    [] s = " [Contains: error]" -> {"error"}
    [] s = " [Contains: function]" -> {"function"}
    [] s = " [Contains: variable]" -> {"variable"}
    [] s = " [Contains: config]" -> {"config"}
    [] s = " [Contains: solution]" -> {"solution"}
    [] s = " [Contains: result]" -> {"result"}
    [] s = " [Compressed]" -> {"[Compressed]"}
    [] OTHER -> {}

\* the searched terms that occur in to_lowercase() of a chunk
OccursInLower(s) ==
  CASE s = "SYSTEM:" -> {"system:"}
    [] s = "Critical" -> {"critical"}
    [] s = " [Compressed]" -> {}
    [] OTHER -> OccursIn(s)

\* text.contains(term)
Contains(text, term) ==
  \E k \in 1..Len(text) : term \in OccursIn(text[k].txt)

\* text.to_lowercase().contains(term)
LowerContains(text, term) ==
  \E k \in 1..Len(text) : term \in OccursInLower(text[k].txt)

\* text.to_lowercase().starts_with("system:")
LowerStartsWithSystem(text) ==
  /\ text # <<>>
  /\ text[1].txt = "SYSTEM:"

\* text.split(". ").next(): the text before the first ". "
RECURSIVE FirstSentence(_)
FirstSentence(text) ==
  IF text = <<>> \/ Head(text).txt = ". " THEN <<>>
  ELSE <<Head(text)>> \o FirstSentence(Tail(text))

----------------------------------------------------------------------------
(* Pure functions of OptimizedConversationHistory *)

MessageTypes ==
  {"UserQuery", "SystemResponse", "CodeExecution", "ImportantDecision",
   "ErrorHandling", "ContextualInfo"}

\* (text.len() as f64 / 3.5).ceil() as usize
estimate_tokens(text) == (2 * StrLen(text) + 6) \div 7

TypeScore(t) ==
  CASE t = "ImportantDecision" -> 40
    [] t = "ErrorHandling" -> 30
    [] t = "UserQuery" -> 20
    [] t = "CodeExecution" -> 10
    [] t = "SystemResponse" -> 0
    [] t = "ContextualInfo" -> -10

\* the searched term of three backquotes, the fenced-code marker
CodeFence == "fence"

\* the clock counts hours: num_minutes() of the age is 60 per hour
AgeMinutes(clock, timestamp) == (clock - timestamp) * 60

\* importance in hundredths, clamped to [0, 100]
\* calculate_importance with a penalty of 0.2 for a long content
calculate_importance_LongPenaltyDoubled(item, clock) ==
  LET c == item.content
      s == 50
           + TypeScore(item.message_type)
           + (IF LowerContains(c, "error") \/ LowerContains(c, "bug")
                THEN 20 ELSE 0)
           + (IF LowerContains(c, "important") \/ LowerContains(c, "critical")
                THEN 20 ELSE 0)
           + (IF LowerContains(c, "solution") \/ LowerContains(c, "fix")
                THEN 15 ELSE 0)
           + (IF Contains(c, CodeFence) \/ Contains(c, "fn ") THEN 10 ELSE 0)
           - (IF StrLen(c) > 2000 THEN 20 ELSE 0)
           + (IF AgeMinutes(clock, item.timestamp) < 60 THEN 10 ELSE 0)
  IN Max(0, Min(100, s))

calculate_importance(item, clock) ==
  LET c == item.content
      s == 50
           + TypeScore(item.message_type)
           + (IF LowerContains(c, "error") \/ LowerContains(c, "bug")
                THEN 20 ELSE 0)
           + (IF LowerContains(c, "important") \/ LowerContains(c, "critical")
                THEN 20 ELSE 0)
           + (IF LowerContains(c, "solution") \/ LowerContains(c, "fix")
                THEN 15 ELSE 0)
           + (IF Contains(c, CodeFence) \/ Contains(c, "fn ") THEN 10 ELSE 0)
           - (IF StrLen(c) > 2000 THEN 10 ELSE 0)
           + (IF AgeMinutes(clock, item.timestamp) < 60 THEN 10 ELSE 0)
  IN Max(0, Min(100, s))

is_essential_message(item) ==
  LET c == item.content
  IN \/ LowerStartsWithSystem(c)
     \/ LowerContains(c, "error:") \/ LowerContains(c, "exception")
     \/ LowerContains(c, "config") \/ LowerContains(c, "setting")

key_terms == <<"error", "function", "variable", "config", "solution", "result">>

ContainsTag(term) ==
  CASE term = "error" -> Lit(" [Contains: error]")
    [] term = "function" -> Lit(" [Contains: function]")
    [] term = "variable" -> Lit(" [Contains: variable]")
    [] term = "config" -> Lit(" [Contains: config]")
    [] term = "solution" -> Lit(" [Contains: solution]")
    [] term = "result" -> Lit(" [Contains: result]")

\* the loop over key_terms, from term k on
RECURSIVE AddKeyTerms(_, _, _)
AddKeyTerms(content, summary, k) ==
  IF k > Len(key_terms) THEN summary
  ELSE IF LowerContains(content, key_terms[k])
          /\ ~LowerContains(summary, key_terms[k])
       THEN AddKeyTerms(content, Append(summary, ContainsTag(key_terms[k])), k + 1)
       ELSE AddKeyTerms(content, summary, k + 1)

create_summary(content) ==
  IF StrLen(content) <= 200 THEN content
  ELSE Append(AddKeyTerms(content, FirstSentence(content), 1),
              Lit(" [Compressed]"))

----------------------------------------------------------------------------
(* The store.  h is the value of an OptimizedConversationHistory:          *)
(* [items, max_tokens, current_tokens, min_messages, full_retention_count],*)
(* with fault = TRUE once a usize subtraction of the code has underflowed  *)
(* (a panic in a debug build, a wrapped value in a release build).         *)
(* A ResponseItem carries its fields and arrival, the position of its      *)
(* add_message call in the order of all add_message calls (history only).  *)

SatSub(a, b) == IF a >= b THEN a - b ELSE 0

\* VecDeque::remove(i), i counted from 0
RemoveAt(seq, i) ==
  [k \in 1..(Len(seq) - 1) |-> IF k <= i THEN seq[k] ELSE seq[k + 1]]

\* the rewriting that also sets the importance anew
Compressed_Rescored(item, summary) ==
  [item EXCEPT !.content = summary,
               !.token_count = estimate_tokens(summary),
               !.importance_score = 50]

\* the item after the assignments of lines 111-112, given its summary
Compressed(item, summary) ==
  [item EXCEPT !.content = summary,
               !.token_count = estimate_tokens(summary)]

\* the store with the rewritten item at index i and the total as it was
Rewrite_TotalNotAdjusted(h, i, rewritten) ==
  [h EXCEPT !.items[i + 1] = rewritten]

\* the store with the rewritten item at index i and the total adjusted by
\* the old and the new token_count (line 114)
Rewrite(h, i, rewritten) ==
  [h EXCEPT
     !.items[i + 1] = rewritten,
     !.current_tokens =
         IF h.current_tokens >= h.items[i + 1].token_count
         THEN h.current_tokens - h.items[i + 1].token_count
                + rewritten.token_count
         ELSE h.current_tokens,
     !.fault = h.fault \/ h.current_tokens < h.items[i + 1].token_count]

\* the body of the for loop of compress_old_messages at index i (from 0)
CompressAt(h, i) ==
  IF StrLen(h.items[i + 1].content) > 200
       /\ h.items[i + 1].importance_score < 70
  THEN Rewrite(h, i, Compressed(h.items[i + 1],
                                create_summary(h.items[i + 1].content)))
  ELSE h

RECURSIVE CompressLoop(_, _, _)
CompressLoop(h, i, compress_threshold) ==
  IF i >= compress_threshold THEN h
  ELSE CompressLoop(CompressAt(h, i), i + 1, compress_threshold)

\* compress_old_messages over the whole store, the last
\* full_retention_count items included
compress_old_messages_NoRetention(h) ==
  CompressLoop(h, 0, Len(h.items))

compress_old_messages(h) ==
  CompressLoop(h, 0, SatSub(Len(h.items), h.full_retention_count))

\* Removable without the test of is_essential_message
Removable_EssentialNotTested(h, i) ==
  /\ i < Len(h.items)
  /\ h.items[i + 1].importance_score < 30

\* the test of the loop body at index i (from 0): there is an item, it is
\* of low importance and it is not essential
Removable(h, i) ==
  /\ i < Len(h.items)
  /\ h.items[i + 1].importance_score < 30
  /\ ~is_essential_message(h.items[i + 1])

\* the store after items.remove(i) and the saturating subtraction
Removed(h, i) ==
  [h EXCEPT
     !.items = RemoveAt(h.items, i),
     !.current_tokens = SatSub(h.current_tokens, h.items[i + 1].token_count)]

\* the loop condition without the test of the budget
Scanning_BudgetNotTested(h, i, len) ==
  i < SatSub(len, h.min_messages)

\* the condition of the while loop; len is the length read before the loop
Scanning(h, i, len) ==
  /\ i < SatSub(len, h.min_messages)
  /\ h.current_tokens > h.max_tokens

\* the while loop of remove_low_importance_messages: a removal leaves the
\* index where it is
RECURSIVE RemoveLoop(_, _, _)
RemoveLoop(h, i, len) ==
  IF Scanning(h, i, len)
  THEN IF Removable(h, i)
       THEN RemoveLoop(Removed(h, i), i, len)
       ELSE RemoveLoop(h, i + 1, len)
  ELSE h

remove_low_importance_messages(h) == RemoveLoop(h, 0, Len(h.items))

\* target_count without the floor of min_messages
target_count_NoFloor(h) == Min(h.max_tokens \div 1000, 50)

target_count(h) == Max(h.min_messages, Min(h.max_tokens \div 1000, 50))

\* the score without the boost of the recent items
Score_NoRecencyBoost(h, a) ==
  h.items[a + 1].importance_score

\* score_a of the comparator, for the item at index a (from 0)
Score(h, a) ==
  h.items[a + 1].importance_score
    + (IF a >= Len(h.items) - h.min_messages THEN 100 ELSE 0)

\* sort_by is stable: an index goes behind every index of a score that is
\* at least its own
RECURSIVE InsertByScore(_, _, _)
InsertByScore(h, sorted, a) ==
  IF sorted = <<>> THEN <<a>>
  ELSE IF Score(h, Head(sorted)) >= Score(h, a)
       THEN <<Head(sorted)>> \o InsertByScore(h, Tail(sorted), a)
       ELSE <<a>> \o sorted

RECURSIVE SortIndices(_, _)
SortIndices(h, n) ==
  IF n = 0 THEN <<>>
  ELSE InsertByScore(h, SortIndices(h, n - 1), n - 1)

\* keep_indices taken one short: importance_indices[..target_count - 1]
keep_indices_OneShort(h) ==
  LET importance_indices == SortIndices(h, Len(h.items))
  IN {importance_indices[k] : k \in 1..(target_count(h) - 1)}

\* importance_indices[..target_count], as a set
keep_indices(h) ==
  LET importance_indices == SortIndices(h, Len(h.items))
  IN {importance_indices[k] : k \in 1..target_count(h)}

RECURSIVE KeepLoop(_, _, _)
KeepLoop(h, keep, i) ==
  IF i >= Len(h.items) THEN <<>>
  ELSE (IF i \in keep THEN <<h.items[i + 1]>> ELSE <<>>)
         \o KeepLoop(h, keep, i + 1)

RECURSIVE SumTokens(_)
SumTokens(seq) ==
  IF seq = <<>> THEN 0 ELSE Head(seq).token_count + SumTokens(Tail(seq))

\* aggressive_prune that rebuilds the items in the order of the ranking
aggressive_prune_RankOrder(h) ==
  IF Len(h.items) <= target_count(h) THEN h
  ELSE LET importance_indices == SortIndices(h, Len(h.items))
           new_items == [k \in 1..target_count(h) |->
                           h.items[importance_indices[k] + 1]]
       IN [h EXCEPT
             !.items = new_items,
             !.current_tokens = SumTokens(new_items),
             !.fault = h.fault
                        \/ (Len(h.items) >= 2 /\ Len(h.items) < h.min_messages)]

aggressive_prune(h) ==
  IF Len(h.items) <= target_count(h) THEN h
  ELSE LET new_items == KeepLoop(h, keep_indices(h), 0)
       IN [h EXCEPT
             !.items = new_items,
             !.current_tokens = SumTokens(new_items),
             !.fault = h.fault
                        \/ (Len(h.items) >= 2 /\ Len(h.items) < h.min_messages)]

\* intelligent_prune without strategy 3
intelligent_prune_NoAggressive(h) ==
  LET over == h.current_tokens > h.max_tokens
      a == IF over THEN compress_old_messages(h) ELSE h
      runB == over /\ a.current_tokens > a.max_tokens
      b == IF runB THEN remove_low_importance_messages(a) ELSE a
  IN [pre |-> h, a |-> a, b |-> b, c |-> b,
      ranA |-> over, ranB |-> runB, ranC |-> FALSE]

\* intelligent_prune, with the store after each strategy:
\* pre on entry, a after strategy 1, b after strategy 2, c on return
intelligent_prune(h) ==
  LET over == h.current_tokens > h.max_tokens
      a == IF over THEN compress_old_messages(h) ELSE h
      runB == over /\ a.current_tokens > a.max_tokens
      b == IF runB THEN remove_low_importance_messages(a) ELSE a
      runC == over /\ b.current_tokens > b.max_tokens
      c == IF runC THEN aggressive_prune(b) ELSE b
  IN [pre |-> h, a |-> a, b |-> b, c |-> c,
      ranA |-> over, ranB |-> runB, ranC |-> runC]

\* add_message up to the call of intelligent_prune
PushItem(h, item, clock, arrival) ==
  LET counted == IF item.token_count = 0
                 THEN [item EXCEPT !.token_count = estimate_tokens(item.content)]
                 ELSE item
      scored == [counted EXCEPT
                   !.importance_score = calculate_importance(counted, clock),
                   !.arrival = arrival]
  IN [h EXCEPT !.items = Append(h.items, scored),
               !.current_tokens = h.current_tokens + scored.token_count]

\* add_message that runs the strategies without the test of lines 82-84
add_message_NoEarlyReturn(h, item, clock, arrival) ==
  LET pre == PushItem(h, item, clock, arrival)
      a == compress_old_messages(pre)
      runB == a.current_tokens > a.max_tokens
      b == IF runB THEN remove_low_importance_messages(a) ELSE a
      runC == b.current_tokens > b.max_tokens
      c == IF runC THEN aggressive_prune(b) ELSE b
  IN [pre |-> pre, a |-> a, b |-> b, c |-> c,
      ranA |-> TRUE, ranB |-> runB, ranC |-> runC]

add_message(h, item, clock, arrival) ==
  intelligent_prune(PushItem(h, item, clock, arrival))

----------------------------------------------------------------------------
(* The wrapper ConversationHistory and its callers' inputs *)

classify_message_type(content, role) ==
  CASE role = "system" -> "SystemResponse"
    [] role = "user" ->
         IF LowerContains(content, "error") \/ LowerContains(content, "help")
         THEN "ErrorHandling"
         ELSE IF LowerContains(content, "config")
                 \/ LowerContains(content, "setting")
              THEN "ImportantDecision"
              ELSE "UserQuery"
    [] role = "assistant" ->
         IF Contains(content, CodeFence)
         THEN "CodeExecution"
         ELSE IF LowerContains(content, "important")
                 \/ LowerContains(content, "warning")
              THEN "ImportantDecision"
              ELSE "SystemResponse"
    [] OTHER -> "ContextualInfo"

\* the ResponseItem that record_items builds from an OriginalResponseItem
optimized_item(original_item, clock) ==
  [content |-> original_item.content,
   role |-> original_item.role,
   timestamp |-> clock,
   token_count |-> 0,
   importance_score |-> 0,
   message_type |->
     classify_message_type(original_item.content, original_item.role),
   arrival |-> 0]

\* OriginalResponseItems the callers record
SystemNotice ==
  [content |-> <<Lit("SYSTEM:"), Lit("Critical"), Lit("error"), X(11)>>,
   role |-> "system"]

ConfigUpdate == [content |-> <<Lit("config"), X(28)>>, role |-> "user"]

Regular == [content |-> <<X(20)>>, role |-> "assistant"]

LongRun == [content |-> <<X(7100)>>, role |-> "tool"]

LongReport ==
  [content |-> <<X(50), Lit(". "), Lit("result"), X(400)>>,
   role |-> "assistant"]

FillerCount == 21

Batches ==
  {<<SystemNotice>>, <<ConfigUpdate>>, <<Regular>>, <<LongRun>>,
   <<LongReport>>, <<SystemNotice, LongRun, Regular>>,
   [k \in 1..FillerCount |-> Regular]}

\* ResponseItems handed to add_message directly: a caller-supplied
\* token_count, a timestamp an hour old, a message type of the caller's
DirectItems(clock) ==
  {[content |-> <<X(7100)>>, role |-> "tool",
    timestamp |-> Max(0, clock - 1),
    token_count |-> 5, importance_score |-> 0,
    message_type |-> "ContextualInfo", arrival |-> 0],
   [content |-> <<Lit("error:"), X(300)>>, role |-> "assistant",
    timestamp |-> Max(0, clock - 1),
    token_count |-> 0, importance_score |-> 100,
    message_type |-> "ContextualInfo", arrival |-> 0]}

KeepCounts == {0, 1, 2, 25}

TokenLimits == {0, 100, 2000}

----------------------------------------------------------------------------
(* State *)

Hist ==
  [items |-> items, max_tokens |-> max_tokens,
   current_tokens |-> current_tokens, min_messages |-> min_messages,
   full_retention_count |-> full_retention_count, fault |-> fault]

Install(h) ==
  /\ items' = h.items
  /\ max_tokens' = h.max_tokens
  /\ current_tokens' = h.current_tokens
  /\ min_messages' = h.min_messages
  /\ full_retention_count' = h.full_retention_count
  /\ fault' = h.fault

\* what get_stats returns.  utilization tells how the f64 quotient
\* current_tokens / max_tokens * 100.0 converts to u32: "finite", "nan_as_0"
\* (0.0 / 0.0) or "inf_as_u32_max" (x / 0.0); the finite value is not
\* modelled.
get_stats(h) ==
  [total_messages |-> Len(h.items),
   total_tokens |-> h.current_tokens,
   max_tokens |-> h.max_tokens,
   utilization |->
     IF h.max_tokens # 0 THEN "finite"
     ELSE IF h.current_tokens = 0 THEN "nan_as_0" ELSE "inf_as_u32_max",
   compressed_messages |->
     Cardinality({k \in 1..Len(h.items) :
                    Contains(h.items[k].content, "[Compressed]")})]

\* the last call: its name, its argument, the stores of intelligent_prune
\* and the value returned
Called(op, arg, p, stats) ==
  [op |-> op, arg |-> arg, pre |-> p.pre, a |-> p.a, b |-> p.b, c |-> p.c,
   ranA |-> p.ranA, ranB |-> p.ranB, ranC |-> p.ranC, stats |-> stats]

NoPrune(h) ==
  [pre |-> h, a |-> h, b |-> h, c |-> h,
   ranA |-> FALSE, ranB |-> FALSE, ranC |-> FALSE]

\* OptimizedConversationHistory::new
new(limit) ==
  [items |-> <<>>, max_tokens |-> limit, current_tokens |-> 0,
   min_messages |-> 10, full_retention_count |-> 20, fault |-> FALSE]

\* ConversationHistory::with_token_limit, and ::new with 800_000
Init ==
  \E limit \in TokenLimits :
    /\ items = new(limit).items
    /\ max_tokens = new(limit).max_tokens
    /\ current_tokens = new(limit).current_tokens
    /\ min_messages = new(limit).min_messages
    /\ full_retention_count = new(limit).full_retention_count
    /\ fault = new(limit).fault
    /\ now = 0
    /\ pending = <<>>
    /\ batch_now = 0
    /\ nextArrival = 1
    /\ ingested = <<>>
    /\ stepsLeft = MaxSteps
    /\ last = Called("new", limit, NoPrune(new(limit)), get_stats(new(limit)))

\* history: what an add_message call was given, as the item stood when
\* it was pushed, and the caller
Ingest(item, via) ==
  [timestamp |-> item.timestamp, essential |-> is_essential_message(item),
   via |-> via]

Pushed(p) == p.pre.items[Len(p.pre.items)]

\* one iteration of the loop of record_items
RecordOne(original_item, clock) ==
  LET p == add_message(Hist, optimized_item(original_item, clock), now,
                       nextArrival)
  IN /\ Install(p.c)
     /\ nextArrival' = nextArrival + 1
     /\ ingested' = Append(ingested, Ingest(Pushed(p), "record_items"))
     /\ last' = Called("record_items", 0, p, last.stats)

\* record_items is called: `now` is read and the first item is added
RecordItems(batch) ==
  /\ pending = <<>> /\ ~fault /\ stepsLeft > 0
  /\ RecordOne(Head(batch), now)
  /\ pending' = Tail(batch)
  /\ batch_now' = now
  /\ stepsLeft' = stepsLeft - 1
  /\ UNCHANGED now

\* the loop of record_items goes on with the next item
RecordNext ==
  /\ pending # <<>> /\ ~fault
  /\ RecordOne(Head(pending), batch_now)
  /\ pending' = Tail(pending)
  /\ UNCHANGED <<now, batch_now, stepsLeft>>

\* add_message called by a user of OptimizedConversationHistory
AddMessage(item) ==
  /\ pending = <<>> /\ ~fault /\ stepsLeft > 0
  /\ LET p == add_message(Hist, item, now, nextArrival)
     IN /\ Install(p.c)
        /\ last' = Called("add_message", 0, p, last.stats)
        /\ ingested' = Append(ingested, Ingest(Pushed(p), "add_message"))
  /\ nextArrival' = nextArrival + 1
  /\ stepsLeft' = stepsLeft - 1
  /\ UNCHANGED <<now, pending, batch_now>>

\* keep_last_messages that takes a count of 0 as the new floor
keep_last_messages_ZeroAccepted(h, count) ==
  intelligent_prune([h EXCEPT !.min_messages = count])

keep_last_messages(h, count) ==
  IF count > 0
  THEN intelligent_prune([h EXCEPT !.min_messages = count])
  ELSE NoPrune(h)

KeepLastMessages(count) ==
  /\ pending = <<>> /\ ~fault /\ stepsLeft > 0
  /\ LET p == keep_last_messages(Hist, count)
     IN /\ Install(p.c)
        /\ last' = Called("keep_last_messages", count, p, last.stats)
  /\ stepsLeft' = stepsLeft - 1
  /\ UNCHANGED <<now, pending, batch_now, nextArrival, ingested>>

GetOptimizationStats ==
  /\ pending = <<>> /\ ~fault
  /\ last' = Called("get_stats", 0, NoPrune(Hist), get_stats(Hist))
  /\ UNCHANGED <<items, max_tokens, current_tokens, min_messages,
                 full_retention_count, fault,
                 now, pending, batch_now, nextArrival, ingested, stepsLeft>>

\* an hour passes between two calls
Tick ==
  /\ pending = <<>> /\ now < MaxClock /\ stepsLeft > 0
  /\ now' = now + 1
  /\ stepsLeft' = stepsLeft - 1
  /\ UNCHANGED <<items, max_tokens, current_tokens, min_messages,
                 full_retention_count, fault,
                 pending, batch_now, nextArrival, ingested, last>>

Next ==
  \/ \E batch \in Batches : RecordItems(batch)
  \/ RecordNext
  \/ \E item \in DirectItems(now) : AddMessage(item)
  \/ \E count \in KeepCounts : KeepLastMessages(count)
  \/ GetOptimizationStats
  \/ Tick

Spec == Init /\ [][Next]_vars

----------------------------------------------------------------------------
(* Stores read back through the derived Deserialize: any items with any    *)
(* importance_score, any min_messages and full_retention_count.  Only the  *)
(* stores whose current_tokens is the sum of their items are drawn.        *)

StoredItem(content, importance) ==
  [content |-> content, role |-> "assistant", timestamp |-> 0,
   token_count |-> estimate_tokens(content),
   importance_score |-> importance,
   message_type |-> "SystemResponse", arrival |-> 0]

StoreItems ==
  {StoredItem(<<X(20)>>, 10),
   StoredItem(<<Lit("config"), X(14)>>, 10),
   StoredItem(<<X(300)>>, 10),
   StoredItem(<<X(300)>>, 70)}

StoreFloors == {1, 2}

StoreLimits == {0, 10}

StoreRetentions == {1, 20}

Restored(seq, limit, floor, retention) ==
  [items |-> [k \in 1..Len(seq) |-> [seq[k] EXCEPT !.arrival = k]],
   max_tokens |-> limit,
   current_tokens |-> SumTokens(seq),
   min_messages |-> floor,
   full_retention_count |-> retention,
   fault |-> FALSE]

StoreInit ==
  \E n \in 0..MaxStoreLen :
    \E seq \in [1..n -> StoreItems] :
      \E limit \in StoreLimits, floor \in StoreFloors,
         retention \in StoreRetentions :
        LET h == Restored(seq, limit, floor, retention)
        IN /\ items = h.items
           /\ max_tokens = h.max_tokens
           /\ current_tokens = h.current_tokens
           /\ min_messages = h.min_messages
           /\ full_retention_count = h.full_retention_count
           /\ fault = h.fault
           /\ now = 0
           /\ pending = <<>>
           /\ batch_now = 0
           /\ nextArrival = n + 1
           /\ ingested = [k \in 1..n |-> Ingest(h.items[k], "deserialize")]
           /\ stepsLeft = MaxStoreSteps
           /\ last = Called("deserialize", limit, NoPrune(h), get_stats(h))

SpecStore == StoreInit /\ [][Next]_vars

----------------------------------------------------------------------------
(* Properties *)

Pruned == last.op \in {"record_items", "add_message", "keep_last_messages"}

Ingested == last.op \in {"record_items", "add_message"}

Arrivals(seq) == {seq[k].arrival : k \in 1..Len(seq)}

Stages == {last.pre, last.a, last.b, last.c}

\* max(min_messages, min(50, max_tokens / 1000)) of a store
Target(h) ==
  LET estimate == IF h.max_tokens \div 1000 < 50
                  THEN h.max_tokens \div 1000 ELSE 50
  IN IF h.min_messages > estimate THEN h.min_messages ELSE estimate

\* C1: after every add_message, record_items step and keep_last_messages
\* call, and after each strategy that ran in it, current_tokens is the sum
\* of token_count over the items of the store.
C1_SumInvariant ==
  /\ current_tokens = SumTokens(items)
  /\ \A st \in Stages : st.current_tokens = SumTokens(st.items)

\* a call in which strategy 1 rewrote an item and strategy 3 truncated
C1_Witness ==
  /\ Pruned /\ last.ranA /\ last.ranC
  /\ last.a.items # last.pre.items
  /\ Len(last.c.items) < Len(last.b.items)
  /\ items = last.c.items

\* C2 as stated: after each ingest either current_tokens <= max_tokens or
\* the number of stored items equals min_messages.
C2_BudgetOrFloor ==
  Ingested => (current_tokens <= max_tokens \/ Len(items) = min_messages)

\* C2 amended: after each ingest either current_tokens <= max_tokens or the
\* number of stored items is at most
\* target_count = max(min_messages, min(50, max_tokens / 1000)).
C2_BudgetOrTarget ==
  Ingested => (current_tokens <= max_tokens \/ Len(items) <= Target(Hist))

\* an ingest that returns over budget with target_count items, more than
\* min_messages
C2_Witness ==
  /\ Ingested /\ last.ranC
  /\ current_tokens > max_tokens
  /\ Len(items) = Target(Hist)
  /\ Len(items) > min_messages

\* C3: the stored items are a subsequence of the arrival order: arrivals
\* increase strictly by position, in the store and after each strategy, each
\* stored item has the timestamp it arrived with, and when the timestamps of
\* the add_message calls never decreased the stored timestamps do not
\* decrease by position.
Ordered(seq) ==
  /\ \A k \in 1..(Len(seq) - 1) : seq[k].arrival < seq[k + 1].arrival
  /\ \A k \in 1..Len(seq) :
       /\ seq[k].arrival \in 1..Len(ingested)
       /\ seq[k].timestamp = ingested[seq[k].arrival].timestamp

NonDecreasing(ts) == \A k \in 1..(Len(ts) - 1) : ts[k] <= ts[k + 1]

C3_OrderInvariant ==
  /\ Ordered(items)
  /\ \A st \in Stages : Ordered(st.items)
  /\ NonDecreasing([k \in 1..Len(ingested) |-> ingested[k].timestamp])
       => NonDecreasing([k \in 1..Len(items) |-> items[k].timestamp])

\* strategy 3 dropped an item from between two that it kept
C3_Witness ==
  /\ Pruned /\ last.ranC
  /\ Len(last.c.items) < Len(last.b.items)
  /\ \E k \in 1..(Len(items) - 1) :
       \E a \in Arrivals(last.b.items) \ Arrivals(items) :
         items[k].arrival < a /\ a < items[k + 1].arrival

\* C4: a store that holds at least min_messages items when
\* intelligent_prune starts holds at least min_messages items when it
\* returns.
C4_Floor ==
  (Pruned /\ Len(last.pre.items) >= last.pre.min_messages)
    => Len(last.c.items) >= last.c.min_messages

\* C5: in a history of record_items calls on a new store an item that
\* is_essential_message when it is ingested is never removed.
OnlyRecorded ==
  /\ min_messages = new(max_tokens).min_messages
  /\ \A a \in 1..Len(ingested) : ingested[a].via = "record_items"

C5_EssentialKept ==
  [][(OnlyRecorded /\ last'.op = "record_items") =>
       \A k \in 1..Len(items) :
         ingested[items[k].arrival].essential
           => items[k].arrival \in Arrivals(items')]_vars

\* C6: strategy 2 (remove_low_importance_messages) removes no item for
\* which is_essential_message holds, whatever its importance.
C6_TierBKeepsEssential ==
  (Pruned /\ last.ranB) =>
    \A k \in 1..Len(last.a.items) :
      is_essential_message(last.a.items[k])
        => \E j \in 1..Len(last.b.items) : last.b.items[j] = last.a.items[k]

\* strategy 2 removed an item and passed over an essential item of
\* importance below 0.3 that it scanned
C6_Witness ==
  /\ Pruned /\ last.ranB
  /\ Len(last.b.items) < Len(last.a.items)
  /\ \E k \in 1..Len(last.a.items) :
       /\ k <= Len(last.a.items) - last.a.min_messages
       /\ last.a.items[k].importance_score < 30
       /\ is_essential_message(last.a.items[k])
       /\ last.a.items[k].arrival \in Arrivals(last.b.items)
       /\ \E j \in (k + 1)..Len(last.a.items) :
            last.a.items[j].arrival \notin Arrivals(last.b.items)

\* C7: a second run of strategy 1 leaves every item that the run before it
\* compressed as it is, and no item ever carries the marker twice.
Markers(content) ==
  Cardinality({k \in 1..Len(content) : content[k].txt = " [Compressed]"})

C7_CompressionIdempotent ==
  /\ (Pruned /\ last.ranA) =>
       \A k \in 1..Len(last.a.items) :
         last.a.items[k] # last.pre.items[k]
           => compress_old_messages(last.a).items[k] = last.a.items[k]
  /\ \A k \in 1..Len(items) : Markers(items[k].content) <= 1

\* C8: keep_last_messages(count) on a store of n items with count >= n
\* removes no item.
C8_KeepLastRemovesNothing ==
  (last.op = "keep_last_messages" /\ last.arg >= Len(last.pre.items))
    => /\ Len(items) = Len(last.pre.items)
       /\ Arrivals(items) = Arrivals(last.pre.items)

\* such a call on an over-budget store that holds an item strategy 2 could
\* remove, with strategy 3 run
C8_Witness ==
  /\ last.op = "keep_last_messages" /\ last.arg >= Len(last.pre.items)
  /\ last.ranB /\ last.ranC
  /\ \E k \in 1..Len(last.pre.items) :
       /\ last.pre.items[k].importance_score < 30
       /\ ~is_essential_message(last.pre.items[k])
  /\ Len(items) = Len(last.pre.items)

\* C9: when aggressive_prune runs on previous_count items, the store holds
\* min(target_count, previous_count) items afterwards.
C9_TierCCount ==
  (Pruned /\ last.ranC)
    => Len(last.c.items) = Min(Target(last.b), Len(last.b.items))

\* aggressive_prune cut a store of more than target_count items, with a
\* target_count above min_messages
C9_Witness ==
  /\ Pruned /\ last.ranC
  /\ Len(last.b.items) > Target(last.b)
  /\ Target(last.b) > last.b.min_messages
  /\ Len(items) = Target(last.b)

\* C10: no store has max_tokens = 0, and get_stats never divides by a zero
\* max_tokens.
C10_NoZeroBudget ==
  /\ max_tokens # 0
  /\ last.op = "get_stats" => last.stats.utilization = "finite"


\* C11: an add_message after whose push current_tokens <= max_tokens leaves
\* every item stored before as it was and in its place, and the store is
\* the old sequence followed by the new item.
C11_UnderBudgetAppend ==
  [][(nextArrival' = nextArrival + 1
        /\ last'.pre.current_tokens <= last'.pre.max_tokens)
       => /\ Len(items') = Len(items) + 1
          /\ SubSeq(items', 1, Len(items)) = items
          /\ items'[Len(items')].arrival = nextArrival
          /\ current_tokens' = current_tokens + items'[Len(items')].token_count]_vars

\* an ingest that stayed within the budget on a store that holds, before
\* the retained suffix, an item strategy 1 would rewrite
C11_Witness ==
  /\ Ingested
  /\ last.pre.current_tokens <= last.pre.max_tokens
  /\ items = last.pre.items
  /\ \E k \in 1..(Len(items) - full_retention_count) :
       /\ StrLen(items[k].content) > 200
       /\ items[k].importance_score < 70


\* the items strategy 1 must leave alone: the last full_retention_count of
\* the store, the items of at most 200 bytes and those of importance 0.7
\* or more
Exempt(h, k) ==
  \/ k > Len(h.items) - h.full_retention_count
  \/ StrLen(h.items[k].content) <= 200
  \/ h.items[k].importance_score >= 70

\* C12: compress_old_messages removes no item and changes neither content
\* nor token_count of an item among the last full_retention_count, of an
\* item of at most 200 bytes or of an item of importance 0.7 or more.
C12_TierAExemption ==
  last.ranA =>
    /\ Len(last.a.items) = Len(last.pre.items)
    /\ \A k \in 1..Len(last.pre.items) :
         /\ last.a.items[k].arrival = last.pre.items[k].arrival
         /\ Exempt(last.pre, k) =>
              /\ last.a.items[k].content = last.pre.items[k].content
              /\ last.a.items[k].token_count = last.pre.items[k].token_count

\* strategy 1 rewrote an item while the store held, before the retained
\* suffix, a short item and a long item of importance 0.7, and in the
\* retained suffix a long item of low importance
C12_Witness ==
  /\ last.ranA
  /\ \E k \in 1..Len(last.pre.items) :
       last.a.items[k].content # last.pre.items[k].content
  /\ \E k \in 1..(Len(last.pre.items) - last.pre.full_retention_count) :
       StrLen(last.pre.items[k].content) <= 200
  /\ \E k \in 1..(Len(last.pre.items) - last.pre.full_retention_count) :
       /\ StrLen(last.pre.items[k].content) > 200
       /\ last.pre.items[k].importance_score >= 70
  /\ \E k \in 1..Len(last.pre.items) :
       /\ k > Len(last.pre.items) - last.pre.full_retention_count
       /\ StrLen(last.pre.items[k].content) > 200
       /\ last.pre.items[k].importance_score < 70


\* the indices of the items a run of strategy 1 rewrote
Rewritten == {k \in 1..Len(last.pre.items) : last.a.items[k] # last.pre.items[k]}

\* C13: every item compress_old_messages rewrites has a strictly smaller
\* token_count afterwards, current_tokens falls by exactly the sum of the
\* differences, and strategy 1 never raises current_tokens.
C13_CompressionShrinks ==
  last.ranA =>
    /\ \A k \in Rewritten :
         last.a.items[k].token_count < last.pre.items[k].token_count
    /\ last.pre.current_tokens - last.a.current_tokens
         = SumTokens(last.pre.items) - SumTokens(last.a.items)
    /\ last.a.current_tokens <= last.pre.current_tokens


\* the removals of the loop of strategy 2 from index i on: each takes an
\* item that is not among the last min_messages of the store as it is then
RECURSIVE RemovalsInRange(_, _, _)
RemovalsInRange(h, i, len) ==
  IF Scanning(h, i, len)
  THEN IF Removable(h, i)
       THEN /\ i < Len(h.items) - h.min_messages
            /\ RemovalsInRange(Removed(h, i), i, len)
       ELSE RemovalsInRange(h, i + 1, len)
  ELSE TRUE

\* C14: for any store, remove_low_importance_messages never removes an
\* item that is among the last min_messages items of the sequence, also
\* after earlier removals of the same pass have shortened the sequence.
C14_TierBScanRange ==
  last.ranB => RemovalsInRange(last.a, 0, Len(last.a.items))


\* the items strategy 2 removed, by arrival number
RemovedByB == Arrivals(last.a.items) \ Arrivals(last.b.items)

\* the token_count of the item strategy 2 removed last: the scan goes from
\* older to newer and never back
LastRemovedTokens ==
  LET k == CHOOSE k \in 1..Len(last.a.items) :
             /\ last.a.items[k].arrival \in RemovedByB
             /\ \A j \in 1..Len(last.a.items) :
                  last.a.items[j].arrival \in RemovedByB => j <= k
  IN last.a.items[k].token_count

\* C15: strategy 2 runs only when current_tokens > max_tokens after
\* strategy 1, strategy 3 only when current_tokens > max_tokens after
\* strategy 2, and every removal of strategy 2 is made in a store with
\* current_tokens > max_tokens: the store before the last removal, which is
\* the result plus the removed item's tokens, is over the budget.
C15_StagedStop ==
  /\ last.ranB => last.a.current_tokens > last.a.max_tokens
  /\ last.ranC => last.b.current_tokens > last.b.max_tokens
  /\ ~last.ranA => last.a = last.pre
  /\ ~last.ranB => last.b = last.a
  /\ ~last.ranC => last.c = last.b
  /\ RemovedByB # {} =>
       last.b.current_tokens + LastRemovedTokens > last.b.max_tokens

\* strategy 2 removed an item, stopped on reaching the budget with a
\* removable item left in the store, and strategy 3 did not run
C15_Witness ==
  /\ last.ranB
  /\ RemovedByB # {}
  /\ last.b.current_tokens <= last.b.max_tokens
  /\ \E k \in 1..Len(last.b.items) : Removable(last.b, k - 1)
  /\ ~last.ranC


\* importance plus 1.0 for the last min_messages positions, in hundredths,
\* of the item at position k (from 1) of the store strategy 3 was given
Composite(k) ==
  last.b.items[k].importance_score
    + (IF k > Len(last.b.items) - last.b.min_messages THEN 100 ELSE 0)

\* the positions in the store given to strategy 3 of the items it kept
KeptByC ==
  {k \in 1..Len(last.b.items) : last.b.items[k].arrival \in Arrivals(last.c.items)}

\* C16: when aggressive_prune truncates, the survivors are exactly
\* target_count items, every kept item has a composite score at least that
\* of every dropped item, and of two items of equal score on either side of
\* the cut the kept one is the earlier.
C16_TierCSelection ==
  (last.ranC /\ Len(last.b.items) > Target(last.b)) =>
    /\ Cardinality(KeptByC) = Target(last.b)
    /\ Len(last.c.items) = Target(last.b)
    /\ \A k \in KeptByC : \A j \in (1..Len(last.b.items)) \ KeptByC :
         \/ Composite(j) < Composite(k)
         \/ Composite(j) = Composite(k) /\ k < j

\* a truncation that kept an item outside the boosted suffix and dropped a
\* later item of the same score, and dropped an item older than a kept one
C16_Witness ==
  /\ last.ranC
  /\ Len(last.b.items) > Target(last.b)
  /\ \E k \in KeptByC : \E j \in (1..Len(last.b.items)) \ KeptByC :
       /\ Composite(j) = Composite(k)
       /\ k < j
       /\ Composite(k) < 100
  /\ \E k \in KeptByC : \E j \in (1..Len(last.b.items)) \ KeptByC :
       /\ j < k
       /\ Composite(j) < Composite(k)


\* the number of iterations, up to fuel, the loop of strategy 2 makes from
\* index i
RECURSIVE Iterations(_, _, _, _)
Iterations(h, i, len, fuel) ==
  IF fuel = 0 \/ ~Scanning(h, i, len) THEN 0
  ELSE IF Removable(h, i)
       THEN 1 + Iterations(Removed(h, i), i, len, fuel - 1)
       ELSE 1 + Iterations(h, i + 1, len, fuel - 1)

\* every iteration removes an item or advances the index: no more than
\* the items of the store plus the indices below the bound
IterationBound(h) == Len(h.items) + SatSub(Len(h.items), h.min_messages)

\* C17: add_message and keep_last_messages return without a fault: the
\* subtraction of strategy 1, the subtraction in the comparator of strategy
\* 3 and its slice stay in range, and the loop of strategy 2 ends within
\* its bound of iterations.
C17_NoFault ==
  /\ ~fault
  /\ \A st \in Stages : ~st.fault
  /\ last.ranA => \A k \in Rewritten :
       last.pre.current_tokens >= last.pre.items[k].token_count
  /\ last.ranB =>
       Iterations(last.a, 0, Len(last.a.items), IterationBound(last.a) + 1)
         <= IterationBound(last.a)
  /\ (last.ranC /\ Len(last.b.items) > Target(last.b)) =>
       /\ Len(last.b.items) >= last.b.min_messages
       /\ Target(last.b) <= Len(last.b.items)

\* a call in which strategy 1 rewrote an item, strategy 2 removed an item
\* and went on with the scan, and strategy 3 truncated
C17_Witness ==
  /\ last.ranA /\ Rewritten # {}
  /\ last.ranB /\ RemovedByB # {}
  /\ Iterations(last.a, 0, Len(last.a.items), IterationBound(last.a) + 1)
       > Cardinality(RemovedByB)
  /\ last.ranC /\ Len(last.c.items) < Len(last.b.items)


\* C18: in every state min_messages >= 1 and target_count >= min_messages,
\* and an add_message or keep_last_messages call on a store that held an
\* item leaves a store that holds an item.
C18_NeverEmpties ==
  /\ min_messages >= 1
  /\ Target(Hist) >= min_messages
  /\ \A st \in Stages : st.min_messages >= 1 /\ Target(st) >= st.min_messages
  /\ (Pruned /\ Len(last.pre.items) >= 1) => Len(items) >= 1

\* a call that was given several items over the budget with the floor at
\* one, and truncated the store to a single item
C18_Witness ==
  /\ Pruned
  /\ Len(last.pre.items) >= 2
  /\ last.pre.min_messages = 1
  /\ last.ranC
  /\ Len(items) = 1


\* the record of the item with arrival number n in a sequence that holds it
ItemOf(seq, n) == seq[CHOOSE k \in 1..Len(seq) : seq[k].arrival = n]

\* two records of one item agree on the fields fixed at ingest
SameFixedFields(x, y) ==
  /\ x.role = y.role
  /\ x.timestamp = y.timestamp
  /\ x.message_type = y.message_type
  /\ x.importance_score = y.importance_score

\* C19: role, timestamp, message_type and importance_score of a stored
\* item never change after the add_message that stored it; content and
\* token_count change only in strategy 1. A step that keeps the old
\* sequence as a prefix of the new one changes no item; any other step is
\* compared item by item.
C19_FieldsFrozen ==
  [][\/ /\ Len(items') >= Len(items)
        /\ SubSeq(items', 1, Len(items)) = items
     \/ \A n \in Arrivals(items) \cap Arrivals(items') :
          LET before == ItemOf(items, n)
              after == ItemOf(items', n)
          IN /\ SameFixedFields(before, after)
             /\ after # before =>
                  /\ last'.ranA
                  /\ ItemOf(last'.pre.items, n) = before
                  /\ ItemOf(last'.a.items, n) = after]_vars

\* a call in which strategy 1 rewrote the content of an item that is still
\* in the store, with its fixed fields as they were
C19_Witness ==
  /\ last.ranA
  /\ \E k \in Rewritten :
       /\ last.a.items[k].content # last.pre.items[k].content
       /\ last.a.items[k].arrival \in Arrivals(items)
       /\ SameFixedFields(ItemOf(items, last.a.items[k].arrival), last.pre.items[k])


\* C20: every importance_score add_message assigns is at least 0.3, so in
\* a store filled through add_message and record_items only, the test of
\* strategy 2 never holds and remove_low_importance_messages removes no
\* item.
C20_TierBRemovesNothing ==
  /\ \A k \in 1..Len(items) : items[k].importance_score >= 30
  /\ \A st \in Stages : \A k \in 1..Len(st.items) :
       /\ st.items[k].importance_score >= 30
       /\ ~Removable(st, k - 1)
  /\ last.ranB => last.b = last.a

\* strategy 2 ran over a store whose scanned part holds a non-essential
\* item of the least importance add_message assigns, 0.3, and kept it
C20_Witness ==
  /\ last.ranB
  /\ \E k \in 1..(Len(last.a.items) - last.a.min_messages) :
       /\ last.a.items[k].importance_score = 30
       /\ ~is_essential_message(last.a.items[k])
       /\ last.a.items[k].arrival \in Arrivals(last.b.items)


\* the positions of the store given to strategy 3 that carry the boost:
\* the last min_messages
Recent == {k \in 1..Len(last.b.items) : k > Len(last.b.items) - last.b.min_messages}

\* C21: when add_message returns, the item it was given is the last item of
\* the store; and strategy 3 drops none of the last min_messages items of
\* the store it is given, each of which has a composite score above that of
\* every older item.
C21_NewestSurvives ==
  /\ Ingested =>
       /\ Len(items) >= 1
       /\ items[Len(items)].arrival = nextArrival - 1
       /\ items[Len(items)] = last.pre.items[Len(last.pre.items)]
  /\ last.ranC =>
       LET kept == Arrivals(last.c.items)
       IN \A k \in Recent :
            /\ last.b.items[k].arrival \in kept
            /\ \A j \in (1..Len(last.b.items)) \ Recent :
                 Composite(k) > Composite(j)

\* an ingest in which strategy 3 truncated the store, dropped an older item
\* of higher importance than the new item, and kept the new item last
C21_Witness ==
  /\ Ingested
  /\ last.ranC
  /\ Len(last.c.items) < Len(last.b.items)
  /\ items[Len(items)].arrival = nextArrival - 1
  /\ \E j \in (1..Len(last.b.items)) \ KeptByC :
       last.b.items[j].importance_score > items[Len(items)].importance_score

====
